---- MODULE Spec2Model ----
(***************************************************************************)
(* Model of src/utils/asyncify/mqtt/client.rs: the single-slot event       *)
(* mailbox (AsyncState, NextFuture, AsyncPostbox, AsyncConnection), the    *)
(* unblocking call adapter (AsyncClient) and the immediate-result future   *)
(* (EnqueueFuture).                                                        *)
(*                                                                         *)
(* Three specifications share the module:                                  *)
(*   Spec        the mailbox: producers in post, one consumer polling,     *)
(*               the connection handle being dropped;                      *)
(*   ClientSpec  clones of one AsyncClient offloading closures that lock   *)
(*               the shared synchronous client;                            *)
(*   EnqueueSpec publish on an Enqueue client and polls of EnqueueFuture.  *)
(***************************************************************************)
EXTENDS Naturals, Sequences, FiniteSets

(* ------------------------------ bounds --------------------------------- *)

\* Total number of post calls made by all producers together.
MaxPosts == 3

\* Threads feeding the postbox. AsyncPostbox::post takes &mut self, but the
\* shared ConnectionState is reference counted and AsyncPostbox::new is
\* public, so several postboxes may feed one mailbox.
Producers == {"p1", "p2"}

\* Wakers the consumer's executor may hand to poll.
Wakers == {"w1", "w2"}

\* Outcome of the synchronous operation carried by an event or a result.
ResultKinds == {"Ok", "Err"}

VARIABLES
    state,      \* ConnectionState.state: Option<AsyncState<R, E>> under the mutex
    lock,       \* holder of the ConnectionState.state mutex, or "free"
    cvWaiters,  \* producers parked in state_changed.wait and not yet notified
    ppc,        \* position of each producer inside AsyncPostbox::post
    pevent,     \* the event argument of the producer's current post
    pprev,      \* what mem::replace returned to the producer in post
    cpc,        \* position of the consumer inside NextFuture::poll
    cwaker,     \* cx.waker() of the poll in progress
    lastPoll,   \* what the most recent poll returned
    regWaker,   \* the waker of the most recent poll, if it returned Pending
    woken,      \* wakers that were woken and whose task has not polled since
    notified,   \* whether the latest poll body, store or close called notify_all
    nposts,     \* number of post calls so far
    posted,     \* history: the post calls, in call order
    stored,     \* history: the events written into the slot, in order
    delivered,  \* history: the events returned as Ready(Some(e)), in order
    returned    \* history: ids of the events whose post has returned

mvars == <<state, lock, cvWaiters, ppc, pevent, pprev, cpc, cwaker, lastPoll,
           regWaker, woken, notified, nposts, posted, stored, delivered, returned>>

(* ------------------------- AsyncState values --------------------------- *)

\* Option::None of the outer Option: the mailbox is closed.
Closed == [tag |-> "Closed"]

\* Some(AsyncState::None)
StNone == [tag |-> "None"]

\* Some(AsyncState::Waiting(waker))
Waiting(w) == [tag |-> "Waiting", waker |-> w]

\* Some(AsyncState::Received(event))
Received(e) == [tag |-> "Received", event |-> e]

\* Poll<Option<Result<Event<R>, E>>>
Pending == [tag |-> "Pending"]
ReadyNone == [tag |-> "ReadyNone"]
ReadySome(e) == [tag |-> "ReadySome", event |-> e]
NotPolled == [tag |-> "NotPolled"]

\* The NextFuture whose poll returned Pending has been dropped.
Dropped == [tag |-> "Dropped"]

\* A Result<Event<R>, E> value; id tells apart the events of different posts.
Event(n, r) == [id |-> n, res |-> r]

\* Placeholders for the locals of a call that is not in progress.
NoEvent == Event(0, "Ok")
NoWaker == "none"

\* Condvar::notify_all on state_changed: every parked thread is released.
NotifyAll(waiters) == {}

(* ---------------------------- AsyncState::new -------------------------- *)

MailboxInit ==
    /\ state = StNone
    /\ lock = "free"
    /\ cvWaiters = {}
    /\ ppc = [p \in Producers |-> "idle"]
    /\ pevent = [p \in Producers |-> NoEvent]
    /\ pprev = [p \in Producers |-> StNone]
    /\ cpc = "idle"
    /\ cwaker = NoWaker
    /\ lastPoll = NotPolled
    /\ regWaker = NoWaker
    /\ woken = {}
    /\ notified = FALSE
    /\ nposts = 0
    /\ posted = <<>>
    /\ stored = <<>>
    /\ delivered = <<>>
    /\ returned = {}

(* ---------------------------- NextFuture::poll ------------------------- *)

\* let mut state = self.0.state.lock();
PollLock(w) ==
    /\ cpc = "idle"
    /\ lock = "free"
    /\ lock' = "consumer"
    /\ cpc' = "locked"
    /\ cwaker' = w
    /\ UNCHANGED <<state, cvWaiters, ppc, pevent, pprev, lastPoll, regWaker,
                   woken, notified, nposts, posted, stored, delivered, returned>>

\* Mutant: the poll returns the event but leaves it in the slot.
PollNewState_KeepsReceived(s, w) ==
    IF s = Closed THEN Closed
    ELSE IF s.tag = "Received" THEN s
    ELSE Waiting(w)

\* Mutant: a waker already registered is kept, the new one is not stored.
PollNewState_KeepsOldWaker(s, w) ==
    IF s = Closed THEN Closed
    ELSE IF s.tag = "Received" THEN StNone
    ELSE IF s.tag = "Waiting" THEN s
    ELSE Waiting(w)

\* Mutant: the non-Received arm leaves AsyncState::None, no waker is stored.
PollNewState_NoRegister(s, w) ==
    IF s = Closed THEN Closed
    ELSE StNone

\* The slot after the poll: mem::replace leaves AsyncState::None, and the
\* non-Received arm then stores Waiting(cx.waker().clone()).
PollNewState(s, w) ==
    IF s = Closed THEN Closed
    ELSE IF s.tag = "Received" THEN StNone
    ELSE Waiting(w)

\* Mutant: a closed mailbox is reported as not ready.
PollResult_ClosedPending(s) ==
    IF s.tag = "Received" THEN ReadySome(s.event)
    ELSE Pending

\* Mutant: an error event is reported as the end of the stream.
PollResult_ErrAsNone(s) ==
    IF s = Closed THEN ReadyNone
    ELSE IF s.tag = "Received"
         THEN IF s.event.res = "Err" THEN ReadyNone ELSE ReadySome(s.event)
    ELSE Pending

\* The value the poll returns.
PollResult(s) ==
    IF s = Closed THEN ReadyNone
    ELSE IF s.tag = "Received" THEN ReadySome(s.event)
    ELSE Pending

\* Mutant: only the arm that takes an event notifies the condvar.
PollNotifies_OnlyWhenTaking(s) == s # Closed /\ s.tag = "Received"

\* Mutant: only the arm that registers the waker notifies the condvar.
PollNotifies_OnlyWhenRegistering(s) == s # Closed /\ s.tag # "Received"

\* Whether the poll calls state_changed.notify_all(): in both arms of the
\* open mailbox, not on a closed one.
PollNotifies(s) == s # Closed

\* The body of poll under the lock; the guard is dropped on return.
PollBody ==
    /\ cpc = "locked"
    /\ lock = "consumer"
    /\ state' = PollNewState(state, cwaker)
    /\ lastPoll' = PollResult(state)
    /\ cvWaiters' = IF PollNotifies(state) THEN NotifyAll(cvWaiters)
                    ELSE cvWaiters
    /\ notified' = IF state = Closed THEN notified ELSE PollNotifies(state)
    /\ delivered' = IF PollResult(state).tag = "ReadySome"
                    THEN Append(delivered, PollResult(state).event)
                    ELSE delivered
    /\ lock' = "free"
    /\ cpc' = "idle"
    /\ cwaker' = NoWaker
    /\ regWaker' = IF PollResult(state) = Pending THEN cwaker ELSE NoWaker
    /\ woken' = woken \ {cwaker}
    /\ UNCHANGED <<ppc, pevent, pprev, nposts, posted, stored, returned>>

\* Mutant: a Drop implementation that resets the slot.
DropFuture_ResetsSlot ==
    /\ cpc = "idle"
    /\ lock = "free"
    /\ lastPoll = Pending
    /\ lastPoll' = Dropped
    /\ state' = IF state = Closed THEN Closed ELSE StNone
    /\ UNCHANGED <<lock, cvWaiters, ppc, pevent, pprev, cpc, cwaker, regWaker,
                   woken, notified, nposts, posted, stored, delivered,
                   returned>>

\* The consumer drops a NextFuture that returned Pending. NextFuture holds
\* only a reference to the ConnectionState and has no Drop implementation:
\* nothing of the mailbox changes.
DropFuture ==
    /\ cpc = "idle"
    /\ lastPoll = Pending
    /\ lastPoll' = Dropped
    /\ UNCHANGED <<state, lock, cvWaiters, ppc, pevent, pprev, cpc, cwaker,
                   regWaker, woken, notified, nposts, posted, stored,
                   delivered, returned>>

(* ---------------------------- AsyncPostbox::post ----------------------- *)

\* A thread calls post(event).
PostCall(p, r) ==
    /\ ppc[p] = "idle"
    /\ nposts < MaxPosts
    /\ nposts' = nposts + 1
    /\ pevent' = [pevent EXCEPT ![p] = Event(nposts + 1, r)]
    /\ posted' = Append(posted, [ev |-> Event(nposts + 1, r), by |-> p])
    /\ ppc' = [ppc EXCEPT ![p] = "lock"]
    /\ UNCHANGED <<state, lock, cvWaiters, pprev, cpc, cwaker, lastPoll,
                   regWaker, woken, notified, stored, delivered, returned>>

\* let mut state = self.0.state.lock();
PostLock(p) ==
    /\ ppc[p] = "lock"
    /\ lock = "free"
    /\ lock' = p
    /\ ppc' = [ppc EXCEPT ![p] = "loop"]
    /\ UNCHANGED <<state, cvWaiters, pevent, pprev, cpc, cwaker, lastPoll,
                   regWaker, woken, notified, nposts, posted, stored, delivered,
                   returned>>

\* Mutant: the loop does not wait for a full slot to drain.
LoopDecision_NoWait(s) ==
    IF s = Closed THEN "return"
    ELSE "break"

\* Mutant: the loop does not look at the closed marker.
LoopDecision_NoClosedCheck(s) ==
    IF s.tag = "Received" THEN "wait"
    ELSE "break"

\* Mutant: on a closed mailbox the loop waits for a state change.
LoopDecision_WaitWhenClosed(s) ==
    IF s = Closed \/ s.tag = "Received" THEN "wait"
    ELSE "break"

\* What one iteration of the loop decides from the state under the lock.
LoopDecision(s) ==
    IF s = Closed THEN "return"
    ELSE IF s.tag = "Received" THEN "wait"
    ELSE "break"

\* One iteration of the loop, the first one ("loop") or one after a wait
\* ("woke"): return, wait on state_changed, or break.
PostLoop(p) ==
    /\ ppc[p] \in {"loop", "woke"}
    /\ lock = p
    /\ CASE LoopDecision(state) = "return" ->
              /\ ppc' = [ppc EXCEPT ![p] = "idle"]
              /\ lock' = "free"
              /\ returned' = returned \cup {pevent[p].id}
              /\ pevent' = [pevent EXCEPT ![p] = NoEvent]
              /\ UNCHANGED cvWaiters
         [] LoopDecision(state) = "wait" ->
              /\ ppc' = [ppc EXCEPT ![p] = "waiting"]
              /\ lock' = "free"
              /\ cvWaiters' = cvWaiters \cup {p}
              /\ UNCHANGED <<returned, pevent>>
         [] OTHER ->
              /\ ppc' = [ppc EXCEPT ![p] = "store"]
              /\ UNCHANGED <<lock, cvWaiters, returned, pevent>>
    /\ UNCHANGED <<state, pprev, cpc, cwaker, lastPoll, regWaker, woken,
                   notified, nposts, posted, stored, delivered>>

\* Mutant: an if instead of a loop, the state is not looked at again after
\* the wait.
CvWake_NoRecheck(p) ==
    /\ ppc[p] = "waiting"
    /\ p \notin cvWaiters
    /\ lock = "free"
    /\ lock' = p
    /\ ppc' = [ppc EXCEPT ![p] = "store"]
    /\ UNCHANGED <<state, cvWaiters, pevent, pprev, cpc, cwaker, lastPoll,
                   regWaker, woken, notified, nposts, posted, stored, delivered,
                   returned>>

\* state_changed.wait returns after a notify_all: the mutex is reacquired.
CvWake(p) ==
    /\ ppc[p] = "waiting"
    /\ p \notin cvWaiters
    /\ lock = "free"
    /\ lock' = p
    /\ ppc' = [ppc EXCEPT ![p] = "woke"]
    /\ UNCHANGED <<state, cvWaiters, pevent, pprev, cpc, cwaker, lastPoll,
                   regWaker, woken, notified, nposts, posted, stored, delivered,
                   returned>>

\* A condition variable may release a waiter without any notification.
SpuriousWake(p) ==
    /\ ppc[p] = "waiting"
    /\ p \in cvWaiters
    /\ cvWaiters' = cvWaiters \ {p}
    /\ UNCHANGED <<state, lock, ppc, pevent, pprev, cpc, cwaker, lastPoll,
                   regWaker, woken, notified, nposts, posted, stored, delivered,
                   returned>>

\* Whether post calls state_changed.notify_all() when it stores: there is no
\* such call after the loop.
PostNotifies == FALSE

\* mem::replace(&mut *state, Some(AsyncState::Received(event)))
PostStore(p) ==
    /\ ppc[p] = "store"
    /\ lock = p
    /\ pprev' = [pprev EXCEPT ![p] = state]
    /\ state' = Received(pevent[p])
    /\ stored' = Append(stored, pevent[p])
    /\ ppc' = [ppc EXCEPT ![p] = "wake"]
    /\ cvWaiters' = IF PostNotifies THEN NotifyAll(cvWaiters) ELSE cvWaiters
    /\ notified' = PostNotifies
    /\ UNCHANGED <<lock, pevent, cpc, cwaker, lastPoll, regWaker, woken,
                   nposts, posted, delivered, returned>>

\* Mutant: the replaced state is dropped without waking its waker.
WakeSet_NoWake(prev) == {}

\* Mutant: wake is called whatever mem::replace returned.
WakeSet_Unconditional(prev) ==
    IF prev.tag = "Waiting" THEN {prev.waker} ELSE {"w1"}

\* The wakers post wakes, given what mem::replace returned.
WakeSet(prev) == IF prev.tag = "Waiting" THEN {prev.waker} ELSE {}

\* if let Some(AsyncState::Waiting(waker)) = ... { waker.wake(); } and return.
PostWake(p) ==
    /\ ppc[p] = "wake"
    /\ lock = p
    /\ woken' = woken \cup WakeSet(pprev[p])
    /\ lock' = "free"
    /\ ppc' = [ppc EXCEPT ![p] = "idle"]
    /\ returned' = returned \cup {pevent[p].id}
    /\ pevent' = [pevent EXCEPT ![p] = NoEvent]
    /\ pprev' = [pprev EXCEPT ![p] = StNone]
    /\ UNCHANGED <<state, cvWaiters, cpc, cwaker, lastPoll, regWaker, notified,
                   nposts, posted, stored, delivered>>

(* ------------------- Drop for AsyncConnection / close ------------------ *)

\* ConnectionState::close: under the lock the state becomes None (closed)
\* and state_changed is notified.
Close ==
    /\ lock = "free"
    /\ state' = Closed
    /\ cvWaiters' = NotifyAll(cvWaiters)
    /\ notified' = TRUE
    /\ UNCHANGED <<lock, ppc, pevent, pprev, cpc, cwaker, lastPoll, regWaker,
                   woken, nposts, posted, stored, delivered, returned>>

(* ======================= the unblocking adapter ======================== *)

\* Number of subscribe, unsubscribe and publish calls made on the adapter.
MaxCalls == 2

\* Number of AsyncClient handles: the one from AsyncClient::new and its clones.
MaxHandles == 2

\* The arguments of the calls: two vectors per operation that differ in every
\* argument (topic, QoS, retain flag, payload).
SubscribeArgs ==
    {[op |-> "subscribe", topic |-> "t", qos |-> 0, retain |-> FALSE, payload |-> ""],
     [op |-> "subscribe", topic |-> "u", qos |-> 1, retain |-> FALSE, payload |-> ""]}

UnsubscribeArgs ==
    {[op |-> "unsubscribe", topic |-> "t", qos |-> 0, retain |-> FALSE, payload |-> ""],
     [op |-> "unsubscribe", topic |-> "u", qos |-> 0, retain |-> FALSE, payload |-> ""]}

PublishArgs ==
    {[op |-> "publish", topic |-> "t", qos |-> 1, retain |-> FALSE, payload |-> "x"],
     [op |-> "publish", topic |-> "u", qos |-> 2, retain |-> TRUE, payload |-> "y"]}

\* Result<MessageId, E> values the synchronous client may return.
Ok(id) == [kind |-> "Ok", id |-> id, err |-> ""]
Err(e) == [kind |-> "Err", id |-> 0, err |-> e]
NoResult == [kind |-> "None", id |-> 0, err |-> ""]
ClientResults == {Ok(1), Err("e")}

\* Poll<Result<MessageId, E>>
FutNotPolled == [tag |-> "NotPolled", val |-> NoResult]
FutPending == [tag |-> "Pending", val |-> NoResult]
FutReady(r) == [tag |-> "Ready", val |-> r]

VARIABLES
    handles,     \* per AsyncClient handle: the Arc<M> (mutex) it holds
    clientLock,  \* per mutex: the closure holding it, or 0
    tasks,       \* the closures handed to the Unblocker, in call order
    inOp,        \* the closures that are inside an operation of the client
    syncSeen     \* per closure: the invocations the synchronous client saw

cvars == <<handles, clientLock, tasks, inOp, syncSeen>>

\* AsyncClient::new: Self(Arc::new(M::new(client)), unblocker)
ClientInit ==
    /\ handles = <<1>>
    /\ clientLock = [m \in 1..(MaxHandles + 1) |-> 0]
    /\ tasks = <<>>
    /\ inOp = {}
    /\ syncSeen = <<>>

\* Mutant: the clone gets a mutex of its own around the client.
Clone_OwnMutex(h) ==
    /\ h \in 1..Len(handles)
    /\ Len(handles) < MaxHandles
    /\ handles' = Append(handles, Len(handles) + 1)
    /\ UNCHANGED <<clientLock, tasks, inOp, syncSeen>>

\* Clone for AsyncClient: Self(self.0.clone(), self.1.clone()): one more
\* handle on the same Arc, so on the same mutex-guarded client.
Clone(h) ==
    /\ h \in 1..Len(handles)
    /\ Len(handles) < MaxHandles
    /\ handles' = Append(handles, handles[h])
    /\ UNCHANGED <<clientLock, tasks, inOp, syncSeen>>

\* Mutant: the retain flag is not passed on.
Owned_DropsRetain(a) ==
    [op |-> a.op, topic |-> a.topic, qos |-> a.qos, retain |-> FALSE,
     payload |-> a.payload]

\* topic.into().into_owned() and payload.into().into_owned(): the owned
\* copies the closure captures.
Owned(a) ==
    [op |-> a.op, topic |-> a.topic, qos |-> a.qos, retain |-> a.retain,
     payload |-> a.payload]

\* subscribe, unsubscribe and publish: the arguments are copied, the Arc is
\* cloned and the closure is handed to the Unblocker.
Call(h, a) ==
    /\ h \in 1..Len(handles)
    /\ Len(tasks) < MaxCalls
    /\ tasks' = Append(tasks, [client |-> handles[h], call |-> a,
                               args |-> Owned(a), pc |-> "scheduled",
                               out |-> NoResult, seen |-> FutNotPolled])
    /\ syncSeen' = Append(syncSeen, <<>>)
    /\ UNCHANGED <<handles, clientLock, inOp>>

\* Mutant: the closure goes on without the mutex.
TaskLock_NoMutex(t) ==
    /\ t \in 1..Len(tasks)
    /\ tasks[t].pc = "scheduled"
    /\ tasks' = [tasks EXCEPT ![t].pc = "locked"]
    /\ UNCHANGED <<handles, clientLock, inOp, syncSeen>>

\* client.lock(): the Unblocker runs the closure, which takes the mutex.
TaskLock(t) ==
    /\ t \in 1..Len(tasks)
    /\ tasks[t].pc = "scheduled"
    /\ clientLock[tasks[t].client] = 0
    /\ clientLock' = [clientLock EXCEPT ![tasks[t].client] = t]
    /\ tasks' = [tasks EXCEPT ![t].pc = "locked"]
    /\ UNCHANGED <<handles, inOp, syncSeen>>

\* .subscribe(&topic, qos), .unsubscribe(&topic) or
\* .publish(&topic, qos, retain, &payload) on the guarded client begins.
TaskCall(t) ==
    /\ t \in 1..Len(tasks)
    /\ tasks[t].pc = "locked"
    /\ tasks' = [tasks EXCEPT ![t].pc = "running"]
    /\ inOp' = inOp \cup {t}
    /\ syncSeen' = [syncSeen EXCEPT
                       ![t] = Append(@, [args |-> tasks[t].args,
                                         ret |-> NoResult])]
    /\ UNCHANGED <<handles, clientLock>>

\* Mutant: the closure replaces the client's error by one of its own.
ClosureResult_OwnError(r) == IF r.kind = "Err" THEN Err("adapter") ELSE r

\* The value of the closure: the value of the operation, as it is.
ClosureResult(r) == r

\* Mutant: the guard outlives the closure, the mutex is never released.
TaskReturn_KeepsLock(t, r) ==
    /\ t \in 1..Len(tasks)
    /\ tasks[t].pc = "running"
    /\ tasks' = [tasks EXCEPT ![t].pc = "done", ![t].out = ClosureResult(r)]
    /\ inOp' = inOp \ {t}
    /\ syncSeen' = [syncSeen EXCEPT ![t][Len(syncSeen[t])].ret = r]
    /\ UNCHANGED <<handles, clientLock>>

\* The operation returns r; the guard is dropped at the end of the closure.
TaskReturn(t, r) ==
    /\ t \in 1..Len(tasks)
    /\ tasks[t].pc = "running"
    /\ tasks' = [tasks EXCEPT ![t].pc = "done", ![t].out = ClosureResult(r)]
    /\ inOp' = inOp \ {t}
    /\ clientLock' = [m \in DOMAIN clientLock |->
                          IF clientLock[m] = t THEN 0 ELSE clientLock[m]]
    /\ syncSeen' = [syncSeen EXCEPT ![t][Len(syncSeen[t])].ret = r]
    /\ UNCHANGED handles

\* U::UnblockFuture polled: Ready with the closure's result once the closure
\* has returned, Pending before.
UnblockPoll(t) ==
    /\ t \in 1..Len(tasks)
    /\ tasks[t].seen.tag # "Ready"
    /\ tasks' = [tasks EXCEPT ![t].seen =
                    IF tasks[t].pc = "done" THEN FutReady(tasks[t].out)
                    ELSE FutPending]
    /\ UNCHANGED <<handles, clientLock, inOp, syncSeen>>

(* ===================== the immediate-result future ===================== *)

\* Number of publish calls on the Enqueue client.
MaxEnqueues == 2

\* Number of polls of one EnqueueFuture.
MaxPolls == 2

VARIABLES
    enqLog,   \* the enqueue invocations the client saw, with their results
    efut      \* the EnqueueFutures returned by publish, in call order

evars == <<enqLog, efut>>

EnqueueInit ==
    /\ enqLog = <<>>
    /\ efut = <<>>

\* EnqueueFuture(self.enqueue(topic, qos, retain, payload))
EnqueueFuture(r) == [res |-> r, polls |-> 0, first |-> FutNotPolled,
                     last |-> FutNotPolled]

\* publish on an Enqueue client: enqueue runs inside the call and returns r.
EnqueuePublish(a, r) ==
    /\ Len(efut) < MaxEnqueues
    /\ enqLog' = Append(enqLog, [args |-> a, res |-> r])
    /\ efut' = Append(efut, EnqueueFuture(r))

\* Mutant: the future reports Pending on its first poll.
EnqueueFuturePoll_PendingFirst(f) ==
    IF f.polls = 0 THEN FutPending ELSE FutReady(f.res)

\* Mutant: the result is moved out by the first poll, a later poll finds
\* nothing.
EnqueueFuturePoll_ReadyOnce(f) ==
    IF f.polls = 0 THEN FutReady(f.res) ELSE FutPending

\* match self.0.as_ref() { Ok(id) => Ready(Ok(*id)), Err(e) => Ready(Err(e.clone())) }
EnqueueFuturePoll(f) ==
    IF f.res.kind = "Ok" THEN FutReady(Ok(f.res.id))
    ELSE FutReady(Err(f.res.err))

\* EnqueueFuture::poll
EnqueuePoll(i) ==
    /\ i \in 1..Len(efut)
    /\ efut[i].polls < MaxPolls
    /\ efut' = [efut EXCEPT
                   ![i].polls = @ + 1,
                   ![i].first = IF efut[i].polls = 0
                                THEN EnqueueFuturePoll(efut[i]) ELSE @,
                   ![i].last = EnqueueFuturePoll(efut[i])]
    /\ UNCHANGED enqLog

(* =========================== specifications ============================ *)

vars == <<mvars, cvars, evars>>

Init == MailboxInit /\ ClientInit /\ EnqueueInit

Next ==
    \/ (\E w \in Wakers : PollLock(w)) /\ UNCHANGED <<cvars, evars>>
    \/ PollBody /\ UNCHANGED <<cvars, evars>>
    \/ DropFuture /\ UNCHANGED <<cvars, evars>>
    \/ (\E p \in Producers, r \in ResultKinds : PostCall(p, r))
           /\ UNCHANGED <<cvars, evars>>
    \/ (\E p \in Producers : PostLock(p)) /\ UNCHANGED <<cvars, evars>>
    \/ (\E p \in Producers : PostLoop(p)) /\ UNCHANGED <<cvars, evars>>
    \/ (\E p \in Producers : CvWake(p)) /\ UNCHANGED <<cvars, evars>>
    \/ (\E p \in Producers : SpuriousWake(p)) /\ UNCHANGED <<cvars, evars>>
    \/ (\E p \in Producers : PostStore(p)) /\ UNCHANGED <<cvars, evars>>
    \/ (\E p \in Producers : PostWake(p)) /\ UNCHANGED <<cvars, evars>>
    \/ Close /\ UNCHANGED <<cvars, evars>>

\* The mailbox.
Spec == Init /\ [][Next]_vars

\* The steps of the mailbox with one waker and one kind of event: whether a
\* blocked thread goes on depends on neither.
FairNext ==
    \/ PollLock("w1") /\ UNCHANGED <<cvars, evars>>
    \/ PollBody /\ UNCHANGED <<cvars, evars>>
    \/ DropFuture /\ UNCHANGED <<cvars, evars>>
    \/ (\E p \in Producers : PostCall(p, "Ok")) /\ UNCHANGED <<cvars, evars>>
    \/ (\E p \in Producers : PostLock(p)) /\ UNCHANGED <<cvars, evars>>
    \/ (\E p \in Producers : PostLoop(p)) /\ UNCHANGED <<cvars, evars>>
    \/ (\E p \in Producers : CvWake(p)) /\ UNCHANGED <<cvars, evars>>
    \/ (\E p \in Producers : SpuriousWake(p)) /\ UNCHANGED <<cvars, evars>>
    \/ (\E p \in Producers : PostStore(p)) /\ UNCHANGED <<cvars, evars>>
    \/ (\E p \in Producers : PostWake(p)) /\ UNCHANGED <<cvars, evars>>
    \/ Close /\ UNCHANGED <<cvars, evars>>

\* The mailbox under fair scheduling: a thread that holds the mutex takes its
\* next step, and a thread whose wait was ended by a notification gets the
\* mutex although other threads take and release it in between.
FairSpec ==
    /\ Init
    /\ [][FairNext]_vars
    /\ WF_vars(PollBody /\ UNCHANGED <<cvars, evars>>)
    /\ \A p \in Producers :
           /\ SF_vars(CvWake(p) /\ UNCHANGED <<cvars, evars>>)
           /\ WF_vars(PostLoop(p) /\ UNCHANGED <<cvars, evars>>)
           /\ WF_vars(PostStore(p) /\ UNCHANGED <<cvars, evars>>)
           /\ WF_vars(PostWake(p) /\ UNCHANGED <<cvars, evars>>)

ClientNext ==
    \/ (\E h \in 1..MaxHandles : Clone(h)) /\ UNCHANGED <<mvars, evars>>
    \/ (\E h \in 1..MaxHandles :
           \E a \in SubscribeArgs \cup UnsubscribeArgs \cup PublishArgs :
               Call(h, a)) /\ UNCHANGED <<mvars, evars>>
    \/ (\E t \in 1..MaxCalls : TaskLock(t)) /\ UNCHANGED <<mvars, evars>>
    \/ (\E t \in 1..MaxCalls : TaskCall(t)) /\ UNCHANGED <<mvars, evars>>
    \/ (\E t \in 1..MaxCalls : \E r \in ClientResults : TaskReturn(t, r))
           /\ UNCHANGED <<mvars, evars>>
    \/ (\E t \in 1..MaxCalls : UnblockPoll(t)) /\ UNCHANGED <<mvars, evars>>

\* The unblocking adapter.
ClientSpec == Init /\ [][ClientNext]_vars

\* Two requests, one without and one with a payload: whether a request
\* resolves does not depend on what is asked.
FairArgs ==
    {[op |-> "subscribe", topic |-> "t", qos |-> 0, retain |-> FALSE, payload |-> ""],
     [op |-> "publish", topic |-> "u", qos |-> 2, retain |-> TRUE, payload |-> "y"]}

ClientFairNext ==
    \/ (\E h \in 1..MaxHandles : Clone(h)) /\ UNCHANGED <<mvars, evars>>
    \/ (\E h \in 1..MaxHandles : \E a \in FairArgs : Call(h, a))
           /\ UNCHANGED <<mvars, evars>>
    \/ (\E t \in 1..MaxCalls : TaskLock(t)) /\ UNCHANGED <<mvars, evars>>
    \/ (\E t \in 1..MaxCalls : TaskCall(t)) /\ UNCHANGED <<mvars, evars>>
    \/ (\E t \in 1..MaxCalls : \E r \in ClientResults : TaskReturn(t, r))
           /\ UNCHANGED <<mvars, evars>>
    \/ (\E t \in 1..MaxCalls : UnblockPoll(t)) /\ UNCHANGED <<mvars, evars>>

\* The unblocking adapter with its scheduling: the Unblocker runs every
\* closure it was handed, a closure blocked in lock() gets the mutex once it
\* stays free, every operation of the client returns, and the task awaiting a
\* request future keeps polling it.
ClientFairSpec ==
    /\ Init
    /\ [][ClientFairNext]_vars
    /\ \A t \in 1..MaxCalls :
           /\ WF_vars(TaskLock(t) /\ UNCHANGED <<mvars, evars>>)
           /\ WF_vars(TaskCall(t) /\ UNCHANGED <<mvars, evars>>)
           /\ WF_vars((\E r \in ClientResults : TaskReturn(t, r))
                          /\ UNCHANGED <<mvars, evars>>)
           /\ WF_vars(UnblockPoll(t) /\ UNCHANGED <<mvars, evars>>)

EnqueueNext ==
    \/ (\E a \in PublishArgs : \E r \in ClientResults : EnqueuePublish(a, r))
           /\ UNCHANGED <<mvars, cvars>>
    \/ (\E i \in 1..MaxEnqueues : EnqueuePoll(i)) /\ UNCHANGED <<mvars, cvars>>

\* The immediate-result future.
EnqueueSpec == Init /\ [][EnqueueNext]_vars

(* ---------------------- helpers of the properties ---------------------- *)

IsPrefix(a, b) == Len(a) <= Len(b) /\ \A i \in 1..Len(a) : a[i] = b[i]

Range(q) == {q[i] : i \in 1..Len(q)}

NoDuplicates(q) == \A i, j \in 1..Len(q) : q[i] = q[j] => i = j

\* The buffered event, as a sequence of length 0 or 1.
Slot == IF state.tag = "Received" THEN <<state.event>> ELSE <<>>

ByProducer(p, x) == x.by = p

\* The events a producer passed to post, in call order.
PostedBy(p) ==
    LET calls == SelectSeq(posted, LAMBDA x : ByProducer(p, x))
    IN  [i \in 1..Len(calls) |-> calls[i].ev]

\* The events of posted that also occur in q, in the order of q.
StoredBy(p, q) == SelectSeq(q, LAMBDA e : e \in Range(PostedBy(p)))

\* The step is the body of a poll.
PollStep == cpc = "locked" /\ cpc' = "idle"

(* ------------------------------- C1 ------------------------------------ *)

\* C1: while the mailbox is open, the events returned by polls as
\* Ready(Some(e)), followed by the buffered event if there is one, are exactly
\* the events stored so far, in order and without duplicates; the events of
\* each producer are stored in the order of its post calls, and the event of
\* every post that has returned has been stored. With one producer the
\* delivered sequence is therefore the posted sequence, in order, nothing
\* missing and nothing twice.
C1_DeliveredIsPosted ==
    state # Closed =>
        /\ delivered \o Slot = stored
        /\ NoDuplicates(delivered)
        /\ \A p \in Producers : IsPrefix(StoredBy(p, stored), PostedBy(p))
        /\ \A i \in 1..Len(posted) :
               posted[i].ev.id \in returned => posted[i].ev \in Range(stored)

\* One producer has posted twice, both posts have returned and the consumer
\* has been handed both events.
C1_Witness ==
    /\ state # Closed
    /\ Len(posted) = 2
    /\ \A i \in 1..Len(posted) : posted[i].by = "p1"
    /\ returned = {1, 2}
    /\ Len(delivered) = 2

(* ------------------------------- C2 ------------------------------------ *)

\* C2: at most one stored event is undelivered, and a producer about to
\* write Received(event), or having just written it, saw None or Waiting but
\* never Received under the lock.
C2_NoOverwrite ==
    /\ Len(stored) <= Len(delivered) + 1
    /\ \A p \in Producers :
           /\ ppc[p] = "store" => state.tag \in {"None", "Waiting"}
           /\ ppc[p] = "wake" => pprev[p].tag \in {"None", "Waiting"}

\* A producer is about to store its event while an earlier event has been
\* stored and delivered, after having waited for it.
C2_Witness ==
    \E p \in Producers :
        /\ ppc[p] = "store"
        /\ Len(stored) = 1
        /\ Len(delivered) = 1
        /\ pevent[p].id = 2
        /\ lastPoll.tag = "ReadySome"

(* ------------------------------- C3 ------------------------------------ *)

\* C3: a post that has returned either stored its event, and then every
\* event stored before it had already been returned by a poll when it was
\* stored, or it found the mailbox closed. So a post made while an earlier
\* event is still in the slot has not returned as long as no poll took that
\* event and the mailbox is open.
C3_SecondPostBlocks ==
    /\ \A k \in 1..Len(stored) :
           stored[k].id \in returned => Len(delivered) >= k - 1
    /\ \A i \in 1..Len(posted) :
           (posted[i].ev.id \in returned /\ posted[i].ev \notin Range(stored))
               => state = Closed
    /\ \A p \in Producers :
           (ppc[p] = "waiting" /\ state # Closed) =>
               (pevent[p].id \notin returned /\ pevent[p] \notin Range(stored))

\* The first post has returned, its event is still in the slot, and the
\* second post is parked on the condvar.
C3_Witness ==
    /\ state.tag = "Received"
    /\ state.event.id = 1
    /\ 1 \in returned
    /\ delivered = <<>>
    /\ \E p \in Producers :
           ppc[p] = "waiting" /\ p \in cvWaiters /\ pevent[p].id = 2

(* ------------------------------- C4 ------------------------------------ *)

\* The last poll returned Pending and its waker has been woken since.
WakeOutstanding == lastPoll = Pending /\ regWaker \in woken

\* C4: (a) post wakes only after it has stored: a producer at the wake holds
\* the lock and the slot holds its event; (b) the wake is not lost: when the
\* last poll returned Pending and an event is in the slot, the registered
\* waker has been woken as soon as the producer releases the lock; (c) a poll
\* of the open mailbox made after the wake returns the event of the post
\* that woke the waker.
C4_WakeAfterStore ==
    /\ [](/\ \A p \in Producers :
                ppc[p] = "wake" => (lock = p /\ state = Received(pevent[p]))
          /\ (lastPoll = Pending /\ state.tag = "Received"
                  /\ lock \notin Producers) => regWaker \in woken)
    /\ [][(PollStep /\ WakeOutstanding /\ state # Closed)
              => lastPoll' = ReadySome(stored[Len(stored)])]_vars

\* A poll returned Pending, a post then stored its event, woke the registered
\* waker and returned.
C4_Witness ==
    /\ WakeOutstanding
    /\ lock = "free"
    /\ Len(stored) = 1
    /\ state = Received(stored[1])
    /\ stored[1].id \in returned

(* ------------------------------- C5 ------------------------------------ *)

\* C5: from a closed mailbox every step leaves the mailbox closed, stores no
\* event and wakes no waker; no producer starts waiting on the condvar, and a
\* producer that looks at the state in the loop returns.
C5_PostAfterCloseIsNoOp ==
    [][state = Closed =>
          /\ state' = Closed
          /\ stored' = stored
          /\ woken' \subseteq woken
          /\ cvWaiters' = {}
          /\ \A p \in Producers :
                 /\ ppc'[p] = "waiting" => ppc[p] = "waiting"
                 /\ ppc[p] \in {"loop", "woke"} => ppc'[p] \in {ppc[p], "idle"}
                 /\ ppc'[p] \notin {"store", "wake"}]_vars

\* Nothing was ever stored, the mailbox is closed and a post has returned:
\* that post ran on the closed mailbox.
C5_Witness ==
    /\ state = Closed
    /\ stored = <<>>
    /\ returned # {}

(* ------------------------------- C6 ------------------------------------ *)

\* C6: every poll of a closed mailbox returns Ready(None) and leaves the
\* mailbox closed, so no poll returns Pending or Some(event) after the close.
C6_PollAfterCloseIsNone ==
    [][(PollStep /\ state = Closed)
           => (lastPoll' = ReadyNone /\ state' = Closed
               /\ delivered' = delivered)]_vars

\* A poll returned Ready(None) after posts were made on the closed mailbox.
C6_Witness ==
    /\ state = Closed
    /\ lastPoll = ReadyNone
    /\ stored = <<>>
    /\ Cardinality(returned) = 2

(* ------------------------------- C7 ------------------------------------ *)

\* C7: when the mailbox is closed no producer is left parked on the condvar:
\* every producer that was waiting has been notified, and its next steps are
\* to take the lock again and to return; it does not store its event and the
\* mailbox stays closed.
C7_CloseReleasesProducer ==
    /\ [](state = Closed =>
             /\ cvWaiters = {}
             /\ \A p \in Producers :
                    /\ ppc[p] \in {"idle", "lock", "loop", "waiting", "woke"}
                    /\ (ppc[p] = "waiting" /\ lock = "free")
                           => ENABLED CvWake(p)
                    /\ ppc[p] = "woke" => ENABLED PostLoop(p))
    /\ [][\A p \in Producers :
              (state = Closed /\ ppc[p] \in {"waiting", "woke"}
                   /\ ppc'[p] # ppc[p])
                  => /\ ppc'[p] = IF ppc[p] = "waiting" THEN "woke" ELSE "idle"
                     /\ ppc[p] = "woke" => returned' = returned \cup {pevent[p].id}
                     /\ stored' = stored
                     /\ state' = Closed]_vars

\* The mailbox was closed while a producer was blocked behind the first
\* event: the producer has come out of the wait and holds the lock again, about
\* to look at the state.
C7_Witness ==
    /\ state = Closed
    /\ Len(stored) = 1
    /\ delivered = <<>>
    /\ \E p \in Producers :
           ppc[p] = "woke" /\ lock = p /\ pevent[p].id = 2

(* ------------------------------- C8 ------------------------------------ *)

\* C8: a poll returns Ready(None) exactly when the mailbox is closed at the
\* poll; a buffered event, an error event included, is returned unchanged as
\* Some(event); and every delivered event is one that was posted.
C8_NoneIffClosed ==
    /\ [][PollStep =>
              /\ (lastPoll' = ReadyNone) <=> (state = Closed)
              /\ state.tag = "Received" => lastPoll' = ReadySome(state.event)]_vars
    /\ [](\A i \in 1..Len(delivered) :
              \E j \in 1..Len(posted) : posted[j].ev = delivered[i])

\* An error event was posted and the poll of the open mailbox returned it.
C8_Witness ==
    /\ state # Closed
    /\ lastPoll.tag = "ReadySome"
    /\ lastPoll.event.res = "Err"
    /\ \E j \in 1..Len(posted) : posted[j].ev = lastPoll.event

(* ------------------------------- C9 ------------------------------------ *)

\* C9: at most one closure is inside an operation of the synchronous client
\* at any time, whatever handles the calls were made on: every handle holds
\* the same mutex, and a closure is inside an operation only while it holds
\* that mutex.
C9_OneOperationAtATime ==
    /\ Cardinality(inOp) <= 1
    /\ \A h \in 1..Len(handles) : handles[h] = handles[1]
    /\ \A t \in inOp : tasks[t].pc = "running" /\ clientLock[tasks[t].client] = t
    /\ \A t \in 1..Len(tasks) :
           tasks[t].pc \in {"locked", "running"} => clientLock[tasks[t].client] = t

\* A clone exists, two calls were made, and the closure of the second call is
\* inside its operation while the closure of the first waits for the mutex.
C9_Witness ==
    /\ Len(handles) = 2
    /\ Len(tasks) = 2
    /\ tasks[1].pc = "scheduled"
    /\ tasks[2].pc = "running"
    /\ inOp = {2}

(* ------------------------------- C10 ----------------------------------- *)

\* C10: every EnqueueFuture exists together with the enqueue invocation that
\* publish made, before any poll; it holds the result of that invocation; and
\* its first poll, like every poll, returns Ready with exactly that result,
\* never Pending.
C10_ResolvesOnFirstPoll ==
    /\ Len(enqLog) = Len(efut)
    /\ \A i \in 1..Len(efut) :
           /\ efut[i].res = enqLog[i].res
           /\ efut[i].polls = 0 => efut[i].first = FutNotPolled
           /\ efut[i].polls >= 1 => efut[i].first = FutReady(enqLog[i].res)
           /\ efut[i].last.tag # "Pending"

\* Two publishes, one enqueued with Ok and one with Err; each future was
\* polled once and returned its result.
C10_Witness ==
    /\ Len(efut) = 2
    /\ efut[1].polls = 1
    /\ efut[2].polls = 1
    /\ efut[1].first = FutReady(Ok(1))
    /\ efut[2].first = FutReady(Err("e"))

(* ------------------------------- C11 ----------------------------------- *)

\* C11: the synchronous client sees no invocation for a call whose closure
\* has not reached the operation, and exactly one once it has, with the
\* operation, topic, QoS, retain flag and payload of the call; the closure's
\* result is the result that invocation returned, and a request future that
\* is Ready holds exactly that result.
C11_OneInvocationSameResult ==
    \A t \in 1..Len(tasks) :
        /\ tasks[t].pc \in {"scheduled", "locked"} => syncSeen[t] = <<>>
        /\ tasks[t].pc \in {"running", "done"} =>
               /\ Len(syncSeen[t]) = 1
               /\ syncSeen[t][1].args = tasks[t].call
        /\ tasks[t].pc = "done" =>
               /\ syncSeen[t][1].ret \in ClientResults
               /\ tasks[t].out = syncSeen[t][1].ret
        /\ tasks[t].seen.tag = "Ready" =>
               /\ tasks[t].pc = "done"
               /\ tasks[t].seen.val = syncSeen[t][1].ret

\* publish("u", 2, true, "y") resolved to the client's error and a subscribe
\* resolved to Ok(MessageId), each after one invocation.
C11_Witness ==
    /\ Len(tasks) = 2
    /\ tasks[1].call \in PublishArgs
    /\ tasks[1].call.retain
    /\ tasks[1].seen = FutReady(Err("e"))
    /\ tasks[2].call \in SubscribeArgs
    /\ tasks[2].seen = FutReady(Ok(1))
    /\ Len(syncSeen[1]) = 1
    /\ Len(syncSeen[2]) = 1

(* ------------------------------- C12 ----------------------------------- *)

\* C12: under ClientFairSpec every call made is followed by its closure
\* completing and by its request future being Ready.
C12_EveryRequestResolves ==
    \A t \in 1..MaxCalls :
        (Len(tasks) >= t) ~>
            (Len(tasks) >= t /\ tasks[t].pc = "done"
                 /\ tasks[t].seen.tag = "Ready")

\* Two closures compete for the mutex: one is inside its operation, the
\* other is scheduled and its future was polled and is Pending.
C12_Witness ==
    /\ Len(tasks) = 2
    /\ tasks[1].pc = "running"
    /\ tasks[2].pc = "scheduled"
    /\ tasks[2].seen = FutPending
    /\ Len(handles) = 2

(* ------------------------------- C13 ----------------------------------- *)

\* A poll, a store or a close has changed the mailbox since its creation.
SomeTransition == state # StNone \/ delivered # <<>>

\* C13 as stated: once an operation has changed the mailbox and released the
\* lock, the latest such operation has notified the condvar; in particular
\* after a post has stored Received(event).
C13_EveryTransitionNotifies ==
    (lock = "free" /\ SomeTransition) => notified

\* C13 as amended: the latest operation on the slot has notified the condvar
\* exactly when it was a poll of the open mailbox (the slot is None after a
\* delivery, or Waiting) or the close; a post that stores Received(event)
\* does not notify, whether the state before was None or Waiting. After a
\* notifying operation no producer is parked on the condvar.
C13_PollAndCloseNotify ==
    /\ notified <=> (state.tag \in {"Waiting", "Closed"}
                        \/ (state = StNone /\ delivered # <<>>))
    /\ state.tag = "Received" => ~notified
    /\ notified => cvWaiters = {}

\* A post has stored its event over Waiting(w), woken w and returned, without
\* a notification of the condvar.
C13_Witness ==
    /\ state.tag = "Received"
    /\ lock = "free"
    /\ ~notified
    /\ lastPoll = Pending
    /\ regWaker \in woken
    /\ state.event.id \in returned

(* ------------------------------- C14 ----------------------------------- *)

\* The slot of the open mailbox holds no event.
SlotFree == state # Closed /\ state.tag # "Received"

\* Producer p is the only thread inside post.
Alone(p) == \A q \in Producers \ {p} : ppc[q] = "idle"

\* C14: a producer blocked on a full slot is released by the poll that takes
\* the event. The notification cannot be missed: a producer is parked on the
\* condvar only while the slot is full, because the poll that takes
\* Received(r) leaves the slot None and notifies under the same lock. Under
\* fair scheduling the released producer wakes and looks at the state again
\* under the lock; if it then finds the slot free it goes on to store its own
\* event, and it does find it free and stores unless another post or the
\* close came in between.
C14_BlockedProducerReleased ==
    /\ [](\A p \in Producers : p \in cvWaiters => state.tag = "Received")
    /\ [][PollStep /\ state.tag = "Received" =>
              /\ state' = StNone
              /\ cvWaiters' = {}
              /\ notified']_vars
    /\ [][\A p \in Producers :
              (ppc[p] = "woke" /\ ppc'[p] # "woke" /\ SlotFree) =>
                  /\ ppc'[p] = "store"
                  /\ lock' = p
                  /\ pevent'[p] = pevent[p]]_vars
    /\ \A p \in Producers :
           (ppc[p] = "waiting" /\ state.tag # "Received") ~> (ppc[p] = "woke")
    /\ \A p \in Producers :
           (ppc[p] = "waiting" /\ SlotFree /\ Alone(p)) ~>
               \/ ppc[p] = "wake" /\ state = Received(pevent[p])
               \/ state = Closed
               \/ ~Alone(p)

\* The second post blocked on the first event, the consumer took the first
\* event, and the producer is back under the lock with the slot free.
C14_Witness ==
    /\ ppc["p1"] = "woke"
    /\ lock = "p1"
    /\ pevent["p1"].id = 2
    /\ state = StNone
    /\ Len(delivered) = 1
    /\ delivered[1].id = 1
    /\ Alone("p1")

(* ------------------------------- C15 ----------------------------------- *)

\* C15: whenever the state is Waiting(w), w is the waker of the most recent
\* poll that returned Pending. A poll on Waiting(old) stores Waiting(current
\* waker), so the waker a post takes out of the state, and the only waker it
\* wakes, is the latest one registered.
C15_LatestWakerRegistered ==
    /\ [](state.tag = "Waiting" =>
              /\ regWaker \in Wakers
              /\ state.waker = regWaker)
    /\ [][PollStep /\ state.tag = "Waiting" =>
              /\ state' = Waiting(cwaker)
              /\ regWaker' = cwaker
              /\ lastPoll' = Pending]_vars
    /\ [](\A p \in Producers :
              (ppc[p] = "wake" /\ pprev[p].tag = "Waiting") =>
                  pprev[p].waker = regWaker)
    /\ [][woken' \subseteq woken \cup {regWaker}]_vars

\* The consumer polled with w1, then with w2; a post has replaced Waiting(w2)
\* and woken w2, and w1 was not woken.
C15_Witness ==
    /\ regWaker = "w2"
    /\ lastPoll = Pending
    /\ woken = {"w2"}
    /\ state.tag = "Received"
    /\ lock = "free"
    /\ Len(stored) = 1

(* ------------------------------- C16 ----------------------------------- *)

\* C16 as stated: once a next-future that returned Pending is dropped its
\* waker is discarded (the mailbox holds no waker and no post wakes one until
\* the next poll), the next post stores without blocking, the first poll of a
\* later next-future returns that event, and no event is lost or duplicated.
C16_DropDiscardsWaker ==
    /\ [](lastPoll = Dropped => state.tag # "Waiting")
    /\ [][lastPoll = Dropped => woken' \subseteq woken]_vars
    /\ [][\A p \in Producers :
              (lastPoll = Dropped /\ SlotFree
                   /\ ppc[p] = "loop" /\ ppc'[p] # "loop") =>
                  ppc'[p] = "store"]_vars
    /\ [][(PollStep /\ lastPoll = Dropped /\ state.tag = "Received") =>
              /\ lastPoll' = ReadySome(state.event)
              /\ state' = StNone]_vars
    /\ [](NoDuplicates(stored) /\ (state # Closed => delivered \o Slot = stored))

\* C16 as amended: the drop changes nothing in the mailbox, so the waker of
\* the dropped future stays registered in Waiting(w). The next post on the
\* open mailbox stores its event without blocking and wakes that stale waker;
\* the first poll of a later next-future returns that event, and no event is
\* lost or duplicated.
C16_DropKeepsWaker ==
    /\ [][(lastPoll = Pending /\ lastPoll' = Dropped) =>
              UNCHANGED <<state, lock, cvWaiters, ppc, pevent, pprev, regWaker,
                          woken, notified, posted, stored, delivered,
                          returned>>]_vars
    /\ [](lastPoll = Dropped =>
              /\ state.tag \in {"Waiting", "Received", "Closed"}
              /\ state.tag = "Waiting" => state.waker = regWaker)
    /\ [][\A p \in Producers :
              (lastPoll = Dropped /\ SlotFree
                   /\ ppc[p] = "loop" /\ ppc'[p] # "loop") =>
                  ppc'[p] = "store"]_vars
    /\ [][\A p \in Producers :
              (lastPoll = Dropped /\ ppc[p] = "wake" /\ ppc'[p] = "idle"
                   /\ pprev[p].tag = "Waiting") =>
                  /\ pprev[p].waker = regWaker
                  /\ woken' = woken \cup {regWaker}
                  /\ state' = Received(pevent[p])]_vars
    /\ [][(PollStep /\ lastPoll = Dropped /\ state.tag = "Received") =>
              /\ lastPoll' = ReadySome(state.event)
              /\ state' = StNone
              /\ delivered' = Append(delivered, state.event)]_vars
    /\ [](NoDuplicates(stored) /\ (state # Closed => delivered \o Slot = stored))

\* The future that registered regWaker was dropped while the slot was still
\* Waiting(regWaker); a post has gone through the loop without blocking and
\* is about to replace the stale registration.
C16_Witness ==
    /\ lastPoll = Dropped
    /\ state = Waiting(regWaker)
    /\ regWaker \notin woken
    /\ ppc["p1"] = "store"
    /\ lock = "p1"
    /\ cvWaiters = {}

(* ------------------------------- C17 ----------------------------------- *)

\* C17: on an open mailbox a poll has exactly two outcomes, decided by the
\* state it finds under the lock. On Received(r) it returns Ready(Some(r))
\* and leaves the slot None; on None or Waiting it returns Pending and leaves
\* Waiting(current waker). It never returns Pending while an event is
\* buffered, and never an event that was not in the slot.
C17_PollTwoOutcomes ==
    [][(PollStep /\ state # Closed) =>
           /\ lastPoll'.tag \in {"Pending", "ReadySome"}
           /\ state.tag = "Received" =>
                  /\ lastPoll' = ReadySome(state.event)
                  /\ state' = StNone
                  /\ delivered' = Append(delivered, state.event)
           /\ state.tag \in {"None", "Waiting"} =>
                  /\ lastPoll' = Pending
                  /\ state' = Waiting(cwaker)
                  /\ delivered' = delivered
           /\ lastPoll' = Pending => state.tag # "Received"
           /\ lastPoll'.tag = "ReadySome" => state = Received(lastPoll'.event)
           /\ lastPoll' # ReadyNone]_vars

\* A poll has returned the buffered event and a later poll, finding the slot
\* empty, has returned Pending and registered its waker.
C17_Witness ==
    /\ Len(delivered) = 1
    /\ lastPoll = Pending
    /\ state = Waiting(regWaker)
    /\ regWaker \in Wakers
    /\ cpc = "idle"
    /\ Len(stored) = 1

(* ------------------------------- C18 ----------------------------------- *)

\* C18: polling an EnqueueFuture is idempotent. Every poll, the first and any
\* later one, returns Ready with the result the future was built from (the
\* same message id, or a clone of the same error), and a poll leaves the
\* wrapped result as it was.
C18_PollIdempotent ==
    /\ [](\A i \in 1..Len(efut) :
              efut[i].polls >= 1 =>
                  /\ efut[i].first = FutReady(efut[i].res)
                  /\ efut[i].last = efut[i].first
                  /\ EnqueueFuturePoll(efut[i]) = efut[i].first)
    /\ [][\A i \in 1..Len(efut) :
              /\ efut'[i].res = efut[i].res
              /\ efut'[i].polls > efut[i].polls =>
                     efut'[i].last = FutReady(efut[i].res)]_vars

\* Two futures, one built from Ok and one from Err, each polled twice with
\* the same answer both times.
C18_Witness ==
    /\ Len(efut) = 2
    /\ efut[1].polls = 2
    /\ efut[2].polls = 2
    /\ efut[1].first = FutReady(Ok(1))
    /\ efut[1].last = FutReady(Ok(1))
    /\ efut[2].first = FutReady(Err("e"))
    /\ efut[2].last = FutReady(Err("e"))

(* ------------------------------- C19 ----------------------------------- *)

\* C19: a registered waker is woken at most once, and only by a post that
\* has just replaced Waiting(w) with Received(event). The store takes the
\* waker out of the state, so a waker still in the state has not been woken,
\* a post that found no waker wakes nobody, and a second post cannot wake the
\* same registration.
C19_WokenOnceByStoringPost ==
    /\ [](state.tag = "Waiting" => state.waker \notin woken)
    /\ [](\A p \in Producers :
              ppc[p] = "wake" =>
                  /\ state = Received(pevent[p])
                  /\ stored[Len(stored)] = pevent[p]
                  /\ \A q \in Producers \ {p} : ppc[q] # "wake")
    /\ [][woken' \subseteq woken \/
              \E p \in Producers : \E w \in Wakers :
                  /\ ppc[p] = "wake"
                  /\ ppc'[p] = "idle"
                  /\ pprev[p] = Waiting(w)
                  /\ w = regWaker
                  /\ w \notin woken
                  /\ woken' = woken \cup {w}
                  /\ state = Received(pevent[p])
                  /\ state' = state]_vars
    /\ [][\A p \in Producers :
              (ppc[p] = "wake" /\ ppc'[p] = "idle"
                   /\ pprev[p].tag # "Waiting") => woken' = woken]_vars

\* Two registrations, each woken by the post that replaced it: the first
\* event was delivered, the consumer registered again, and the second post
\* has woken that registration.
C19_Witness ==
    /\ Len(stored) = 2
    /\ Len(delivered) = 1
    /\ lastPoll = Pending
    /\ regWaker \in woken
    /\ state = Received(stored[2])
    /\ lock = "free"
    /\ stored[2].id \in returned

(* ------------------------------- C20 ----------------------------------- *)

\* The producers inside post that hold state p.
At(pc) == {p \in Producers : ppc[p] = pc}

\* C20: with two producers posting concurrently and with spurious wake-ups,
\* no stored event is overwritten and every stored event is delivered exactly
\* once. A producer whose wait has ended looks at the state again under the
\* lock: on a full slot it waits again and stores nothing, so of several
\* producers released together one stores and the others block again; a
\* store happens only on a free slot; on the open mailbox the delivered
\* events followed by the buffered one are exactly the stored events, in
\* order and without repetition.
C20_ConcurrentProducersSafe ==
    /\ [][\A p \in Producers :
              (ppc[p] = "woke" /\ ppc'[p] # "woke") =>
                  /\ state.tag = "Received" =>
                         /\ ppc'[p] = "waiting"
                         /\ p \in cvWaiters'
                         /\ lock' = "free"
                  /\ SlotFree => ppc'[p] = "store"
                  /\ state = Closed => ppc'[p] = "idle"
                  /\ UNCHANGED <<state, stored, delivered>>]_vars
    /\ [][stored' # stored =>
              /\ SlotFree
              /\ \E p \in Producers :
                     /\ ppc[p] = "store"
                     /\ lock = p
                     /\ stored' = Append(stored, pevent[p])
                     /\ state' = Received(pevent[p])]_vars
    /\ [](Cardinality(At("store") \cup At("wake") \cup At("woke")
                          \cup At("loop")) <= 1)
    /\ [](/\ NoDuplicates(stored)
          /\ NoDuplicates(delivered)
          /\ IsPrefix(delivered, stored)
          /\ Len(stored) - Len(delivered) \in {0, 1}
          /\ state # Closed => delivered \o Slot = stored
          /\ \A i \in 1..Len(stored) :
                 \E j \in 1..Len(posted) : posted[j].ev = stored[i])

\* Two producers: the one that called post first has ended a wait and is
\* looking at the state again under the lock, and finds the slot filled by
\* the other producer's later event, which followed the delivered one; it
\* will block again.
C20_Witness ==
    /\ Len(delivered) = 1
    /\ delivered[1].id = 1
    /\ Len(stored) = 2
    /\ ppc["p2"] = "woke"
    /\ lock = "p2"
    /\ pevent["p2"].id = 2
    /\ state = Received(stored[2])
    /\ stored[2].id = 3
    /\ PostedBy("p1") # <<>>
    /\ ppc["p1"] = "idle"
    /\ 3 \in returned

====
